---- MODULE Spec2Model ----
(***************************************************************************)
(* tw_bitcoin: TransactionBuilder (rust/tw_bitcoin/src/lib.rs).            *)
(* The builder accumulates inputs, outputs, fee, version and lock time;    *)
(* sign_inputs_fn / sign_inputs consume it, compute one digest per input,  *)
(* call the signer and splice the returned claims into the transaction.    *)
(***************************************************************************)
EXTENDS Integers, Sequences, FiniteSets

(***************************************************************************)
(* Bounds of the model.                                                    *)
(***************************************************************************)
MaxInputs == 2
MaxOutputs == 1
CfgMaxOutputs == 2

(***************************************************************************)
(* u64 arithmetic.  A u64 is four 16-bit limbs, least significant first,   *)
(* so that the 64-bit width is kept exactly.                               *)
(***************************************************************************)
Base == 2^16
U64Len == 4
WideLen == U64Len + 1

Limbs(n, l0) == [i \in 1..n |-> IF i = 1 THEN l0 ELSE 0]
U64(l0) == Limbs(U64Len, l0)
U64Max == [i \in 1..U64Len |-> Base - 1]

RECURSIVE Carry(_, _, _)
Carry(a, b, i) == IF i = 0 THEN 0 ELSE (a[i] + b[i] + Carry(a, b, i - 1)) \div Base

AddLimbs(a, b, n) == [i \in 1..n |-> (a[i] + b[i] + Carry(a, b, i - 1)) % Base]

\* a > b on limb vectors of the same length
GtLimbs(a, b) ==
    LET d == {i \in DOMAIN a : a[i] # b[i]}
    IN  d # {} /\ LET m == CHOOSE i \in d : \A j \in d : j <= i IN a[m] > b[m]

\* u64 `+`: the wrapped sum and whether the true sum left the u64 range
AddU64(a, b) == [value |-> AddLimbs(a, b, U64Len), overflow |-> Carry(a, b, U64Len) = 1]

\* the same number with one more limb: sums of a few u64 never leave it
Widen(a) == [i \in 1..WideLen |-> IF i <= U64Len THEN a[i] ELSE 0]
AddWide(a, b) == AddLimbs(a, b, WideLen)

(***************************************************************************)
(* Option<T>                                                               *)
(***************************************************************************)
None == <<>>
Some(x) == <<x>>
IsSome(o) == o # <<>>
Unwrap(o) == o[1]

(***************************************************************************)
(* Inputs and outputs.                                                     *)
(***************************************************************************)
Kinds == {"P2PKH", "P2WPKH", "P2TRKeyPath", "P2TRScriptPath", "NonStandard"}

IsTaproot(input) == input.kind \in {"P2TRKeyPath", "P2TRScriptPath"}

\* InputContext::new: value present, default sequence, empty witness
InputContextNew(utxo, point) ==
    [previous_output |-> point,
     value           |-> Some(utxo.value),
     script_pubkey   |-> utxo.script_pubkey,
     sequence        |-> "0xFFFFFFFF",
     witness         |-> <<>>]

KindNo(kind) ==
    CASE kind = "P2PKH" -> 1
      [] kind = "P2WPKH" -> 2
      [] kind = "P2TRKeyPath" -> 3
      [] kind = "P2TRScriptPath" -> 4
      [] kind = "NonStandard" -> 5

\* the script the spent output of each variant carries
ScriptOf(kind) ==
    CASE kind = "P2PKH" -> "p2pkh"
      [] kind = "P2WPKH" -> "v0_p2wpkh"
      [] kind = "P2TRKeyPath" -> "v1_p2tr"
      [] kind = "P2TRScriptPath" -> "v1_p2tr_script"
      [] kind = "NonStandard" -> "raw"

\* an input of the given variant spending outpoint `point`
MkInput(kind, value, point) ==
    [kind |-> kind,
     ctx  |-> [InputContextNew([value |-> U64(0), script_pubkey |-> ScriptOf(kind)], point)
                  EXCEPT !.value = value]]

\* TxInput::ctx
ctx(input) == input.ctx

\* TxInput::satoshis
satoshis(input) == ctx(input).value

\* TxOutput::satoshis
out_satoshis(output) == output.value

\* TxIn::from(TxInput): previous output and sequence, no script, no witness
TxInFrom(input) ==
    [previous_output |-> ctx(input).previous_output,
     script_sig      |-> <<>>,
     sequence        |-> ctx(input).sequence,
     witness         |-> <<>>]

\* TxOut::from(TxOutput)
TxOutFrom(output) == [value |-> output.value, script_pubkey |-> output.script_pubkey]

\* Height::from_consensus: block heights lie below the lock-time threshold
LOCK_TIME_THRESHOLD == 500000000
HeightFromConsensus(height) ==
    IF height < LOCK_TIME_THRESHOLD THEN [ok |-> TRUE, height |-> height]
                                    ELSE [ok |-> FALSE, height |-> 0]

(***************************************************************************)
(* TransactionBuilder: the configuration operations as functions on the    *)
(* builder value.                                                          *)
(***************************************************************************)
BuilderDefault ==
    [version          |-> 2,
     lock_time        |-> 0,
     inputs           |-> <<>>,
     outputs          |-> <<>>,
     miner_fee        |-> None,
     return_address   |-> None,
     contains_taproot |-> FALSE]

version(self, v) == [self EXCEPT !.version = v]

\* defined where Height::from_consensus succeeds; the caller unwraps
lock_time(self, height) == [self EXCEPT !.lock_time = HeightFromConsensus(height).height]

return_address(self, address) == [self EXCEPT !.return_address = Some(address)]

miner_fee(self, satoshi) == [self EXCEPT !.miner_fee = Some(satoshi)]

\* add_input that raises the taproot flag for key-path inputs only
add_input_KeyPathFlagOnly(self, input) ==
    [self EXCEPT !.contains_taproot = IF input.kind = "P2TRKeyPath" THEN TRUE ELSE @,
                 !.inputs = Append(@, input)]

add_input(self, input) ==
    [self EXCEPT !.contains_taproot = IF IsTaproot(input) THEN TRUE ELSE @,
                 !.inputs = Append(@, input)]

\* add_output that puts the new output first
add_output_Prepend(self, output) == [self EXCEPT !.outputs = <<output>> \o @]

add_output(self, output) == [self EXCEPT !.outputs = Append(@, output)]

(***************************************************************************)
(* sign_inputs_fn, lines 243-287: the transaction skeleton, the totals,    *)
(* the balance check and the taproot prevouts.                             *)
(***************************************************************************)

\* `total_satoshi_inputs += input.satoshis().unwrap()` over inputs i..: the
\* unwrap panics on a missing value; `+=` panics on overflow when the build
\* checks overflow (oc = "on") and wraps otherwise
RECURSIVE SumInputs(_, _, _, _)
SumInputs(inputs, i, total, oc) ==
    IF i > Len(inputs)
    THEN [status |-> "ok", site |-> "", at |-> 0, total |-> total, overflowed |-> FALSE]
    ELSE IF ~IsSome(satoshis(inputs[i]))
    THEN [status |-> "panic", site |-> "satoshis_unwrap", at |-> i, total |-> total,
          overflowed |-> FALSE]
    ELSE LET s == AddU64(total, Unwrap(satoshis(inputs[i])))
         IN  IF s.overflow /\ oc = "on"
             THEN [status |-> "panic", site |-> "inputs_add_overflow", at |-> i,
                   total |-> total, overflowed |-> TRUE]
             ELSE [SumInputs(inputs, i + 1, s.value, oc) EXCEPT !.overflowed = @ \/ s.overflow]

\* `total_satoshis_outputs += output.satoshis()` over outputs i..
RECURSIVE SumOutputs(_, _, _, _)
SumOutputs(outputs, i, total, oc) ==
    IF i > Len(outputs)
    THEN [status |-> "ok", site |-> "", at |-> 0, total |-> total, overflowed |-> FALSE]
    ELSE LET s == AddU64(total, out_satoshis(outputs[i]))
         IN  IF s.overflow /\ oc = "on"
             THEN [status |-> "panic", site |-> "outputs_add_overflow", at |-> i,
                   total |-> total, overflowed |-> TRUE]
             ELSE [SumOutputs(outputs, i + 1, s.value, oc) EXCEPT !.overflowed = @ \/ s.overflow]

\* the `tx.input` / `tx.output` vectors the two loops push
SkeletonInputs(inputs) == [i \in 1..Len(inputs) |-> TxInFrom(inputs[i])]
SkeletonOutputs(outputs) == [i \in 1..Len(outputs) |-> TxOutFrom(outputs[i])]

\* the balance comparison without the fee
BalanceFails_WithoutFee(outputs_total, fee, inputs_total) == GtLimbs(outputs_total, inputs_total)

\* `total_satoshis_outputs + miner_fee > total_satoshi_inputs`
BalanceFails(outputs_total, fee, inputs_total) == GtLimbs(AddU64(outputs_total, fee).value, inputs_total)

\* the prevouts loop: one TxOut per input, or the first input without a value
RECURSIVE BuildPrevouts(_, _, _)
BuildPrevouts(inputs, i, acc) ==
    IF i > Len(inputs)
    THEN [status |-> "ok", at |-> 0, prevouts |-> acc]
    ELSE IF ~IsSome(ctx(inputs[i]).value)
    THEN [status |-> "err", at |-> i, prevouts |-> acc]
    ELSE BuildPrevouts(inputs, i + 1,
            Append(acc, [value |-> Unwrap(ctx(inputs[i]).value),
                         script_pubkey |-> ctx(inputs[i]).script_pubkey]))

(***************************************************************************)
(* sign_inputs_fn, lines 289-368: one digest per input, one signer call    *)
(* per digest.                                                             *)
(***************************************************************************)

\* ScriptBuf::p2wpkh_script_code: None unless the script is a v0 p2wpkh program
p2wpkh_script_code(script_pubkey) ==
    IF script_pubkey = "v0_p2wpkh" THEN Some("p2wpkh_script_code") ELSE None

\* SighashCache: every sighash rejects an input index outside the transaction
IndexInBounds(t, i) == i \in 1..Len(t.input)

\* Prevouts::All must hold one TxOut per input of the transaction
PrevoutsMatch(t, pv) == Len(pv) = Len(t.input)

\* a match that sends NonStandard inputs down the legacy arm
SighashArm_NonStandardSigned(input) ==
    CASE input.kind \in {"P2PKH", "NonStandard"} -> "legacy"
      [] input.kind = "P2WPKH" -> "segwit_v0"
      [] input.kind = "P2TRKeyPath" -> "taproot_key_spend"
      [] input.kind = "P2TRScriptPath" -> "taproot_script_spend"

\* the arm of `match input` (lines 295-367) an input takes
SighashArm(input) ==
    CASE input.kind = "P2PKH" -> "legacy"
      [] input.kind = "P2WPKH" -> "segwit_v0"
      [] input.kind = "P2TRKeyPath" -> "taproot_key_spend"
      [] input.kind = "P2TRScriptPath" -> "taproot_script_spend"
      [] input.kind = "NonStandard" -> "skip"

\* the digest of input `i` (lines 296-366): what the hash commits to, or the
\* place where the computation stops
Digest(input, i, t, pv) ==
    CASE SighashArm(input) = "legacy" ->
            [status |-> IF IndexInBounds(t, i) THEN "ok" ELSE "err", site |-> "sighash",
             hash |-> [algo |-> "legacy", index |-> i,
                       script |-> ctx(input).script_pubkey, value |-> None,
                       prevouts |-> <<>>]]
      [] SighashArm(input) = "segwit_v0" ->
            [status |-> IF ~IsSome(p2wpkh_script_code(ctx(input).script_pubkey)) THEN "panic"
                        ELSE IF ~IsSome(ctx(input).value) THEN "panic"
                        ELSE IF IndexInBounds(t, i) THEN "ok" ELSE "err",
             site |-> IF ~IsSome(p2wpkh_script_code(ctx(input).script_pubkey))
                      THEN "script_code_unwrap"
                      ELSE IF ~IsSome(ctx(input).value) THEN "value_unwrap" ELSE "sighash",
             hash |-> [algo |-> "segwit_v0", index |-> i,
                       script |-> ctx(input).script_pubkey, value |-> ctx(input).value,
                       prevouts |-> <<>>]]
      [] SighashArm(input) = "taproot_key_spend" ->
            [status |-> IF IndexInBounds(t, i) /\ PrevoutsMatch(t, pv) THEN "ok" ELSE "err",
             site |-> "sighash",
             hash |-> [algo |-> "taproot_key_spend", index |-> i,
                       script |-> "", value |-> None, prevouts |-> pv]]
      [] SighashArm(input) = "taproot_script_spend" ->
            [status |-> IF IndexInBounds(t, i) /\ PrevoutsMatch(t, pv) THEN "ok" ELSE "err",
             site |-> "sighash",
             hash |-> [algo |-> "taproot_script_spend", index |-> i,
                       script |-> "leaf_hash", value |-> None, prevouts |-> pv]]
      [] SighashArm(input) = "skip" ->
            [status |-> "skip", site |-> "",
             hash |-> [algo |-> "none", index |-> i, script |-> "", value |-> None,
                       prevouts |-> <<>>]]

\* a push that puts the newest claim first
PushClaim_Front(cs, i, updated) == <<(<<i, updated>>)>> \o cs

\* `claims.push((index, updated))`
PushClaim(cs, i, updated) == Append(cs, <<i, updated>>)

\* what a signer may hand back as claim data: nothing, or signature material
ClaimData == {<<>>, <<"sig">>}

SignerErr == [status |-> "err", loc |-> "", data |-> <<>>]
SignerPanic == [status |-> "panic", loc |-> "", data |-> <<>>]
Claim(loc, data) == [status |-> "ok", loc |-> loc, data |-> data]

\* the closure sign_inputs passes to sign_inputs_fn (lines 220-236)
SignInputsClosure(input) ==
    CASE input.kind = "P2PKH" -> {SignerErr} \cup {Claim("Script", d) : d \in ClaimData}
      [] input.kind \in {"P2WPKH", "P2TRKeyPath", "P2TRScriptPath"} ->
            {SignerErr} \cup {Claim("Witness", d) : d \in ClaimData}
      [] input.kind = "NonStandard" -> {SignerPanic}

\* any closure `Fn(&TxInput, Message) -> Result<ClaimLocation>`
AnyClosure(input) ==
    {SignerErr} \cup {Claim(loc, d) : loc \in {"Script", "Witness"}, d \in ClaimData}

SignerResults(entry, input) ==
    IF entry = "sign_inputs" THEN SignInputsClosure(input) ELSE AnyClosure(input)

\* an assembly that writes Script claims to the witness and Witness claims
\* to the script signature
ApplyClaim_Swapped(t, i, claim_loc) ==
    IF claim_loc.loc = "Script"
    THEN [t EXCEPT !.input[i].witness = claim_loc.data]
    ELSE [t EXCEPT !.input[i].script_sig = claim_loc.data]

\* lines 374-381: a claim overwrites the field its location names
ApplyClaim(t, i, claim_loc) ==
    IF claim_loc.loc = "Script"
    THEN [t EXCEPT !.input[i].script_sig = claim_loc.data]
    ELSE [t EXCEPT !.input[i].witness = claim_loc.data]

(***************************************************************************)
(* The arguments the operations are called with.                           *)
(***************************************************************************)
InputPool ==
    {MkInput(k, v, KindNo(k)) : k \in Kinds, v \in {None, Some(U64(2))}}
        \cup {MkInput("P2PKH", Some(U64Max), 6)}
        \cup {[MkInput("P2WPKH", Some(U64(2)), 7) EXCEPT !.ctx.script_pubkey = "raw"]}
CfgInputPool ==
    {MkInput("P2PKH", Some(U64(2)), 1),
     [MkInput("P2WPKH", Some(U64(2)), 2) EXCEPT !.ctx.sequence = "0xFFFFFFFD"],
     MkInput("NonStandard", Some(U64(2)), 5)}
OutputPool ==
    {[value |-> U64(1), script_pubkey |-> "outA"],
     [value |-> U64Max, script_pubkey |-> "outB"]}
CfgOutputPool ==
    {[value |-> U64(1), script_pubkey |-> "outA"],
     [value |-> U64(2), script_pubkey |-> "outB"]}
FeePool == {U64(2)}
CfgFeePool == {U64(0)}
VersionPool == {1}
HeightPool == {7, LOCK_TIME_THRESHOLD}
AddressPool == {"addr"}

(***************************************************************************)
(* State.                                                                  *)
(***************************************************************************)
VARIABLES
    builder,                \* the TransactionBuilder value
    pc,                     \* "config", then the position inside sign_inputs_fn
    api,                    \* the signing entry point that consumed the builder
    overflow_checks,        \* whether the build checks integer overflow
    tx,                     \* `tx` of sign_inputs_fn
    total_satoshi_inputs,
    total_satoshis_outputs,
    prevouts,
    claims,
    index,                  \* loop position (1-based)
    result,                 \* what the caller gets
    digests,                \* log: the digest computations started
    signer_calls,           \* log: the signer invocations and their results
    applied,                \* log: the input positions claims were written to
    called                  \* log: the arguments of the configuration calls

vars == <<builder, pc, api, overflow_checks, tx, total_satoshi_inputs,
          total_satoshis_outputs, prevouts, claims, index, result, digests,
          signer_calls, applied, called>>

locals == <<tx, total_satoshi_inputs, total_satoshis_outputs, prevouts, claims, index>>
logs == <<digests, signer_calls, applied, called>>

NoResult == [kind |-> "None", site |-> "", at |-> 0, tx |-> <<>>]
Ok(t) == [kind |-> "Ok", site |-> "", at |-> 0, tx |-> <<t>>]
Err(site, at) == [kind |-> "Err", site |-> site, at |-> at, tx |-> <<>>]
Panic(site, at) == [kind |-> "Panic", site |-> site, at |-> at, tx |-> <<>>]

Init ==
    /\ builder = BuilderDefault
    /\ pc = "config"
    /\ api = "none"
    /\ overflow_checks = "unknown"
    /\ tx = [version |-> 0, lock_time |-> 0, input |-> <<>>, output |-> <<>>]
    /\ total_satoshi_inputs = U64(0)
    /\ total_satoshis_outputs = U64(0)
    /\ prevouts = <<>>
    /\ claims = <<>>
    /\ index = 0
    /\ result = NoResult
    /\ digests = <<>>
    /\ signer_calls = <<>>
    /\ applied = <<>>
    /\ called = [version |-> None, lock_time |-> None, return_address |-> None,
                 miner_fee |-> None, inputs |-> <<>>, outputs |-> <<>>]

\* the operation ends: the caller gets `r`
Return(r) == pc' = "done" /\ result' = r

\* the build's overflow behaviour is fixed once; it shows at the first overflow
OverflowModes == IF overflow_checks = "unknown" THEN {"on", "off"} ELSE {overflow_checks}

(***************************************************************************)
(* Configuration operations (lines 186-215).                               *)
(***************************************************************************)
Configure(b, c) ==
    /\ builder' = b
    /\ called' = c
    /\ UNCHANGED <<pc, api, overflow_checks, result, locals, digests, signer_calls, applied>>

VersionFrom(pool) ==
    /\ pc = "config"
    /\ \E v \in pool :
          Configure(version(builder, v), [called EXCEPT !.version = Some(v)])

\* `Height::from_consensus(height).unwrap()`
LockTimeFrom(pool) ==
    /\ pc = "config"
    /\ \E height \in pool :
          IF HeightFromConsensus(height).ok
          THEN Configure(lock_time(builder, height), [called EXCEPT !.lock_time = Some(height)])
          ELSE /\ Return(Panic("lock_time_unwrap", 0))
               /\ called' = [called EXCEPT !.lock_time = Some(height)]
               /\ UNCHANGED <<builder, api, overflow_checks, locals, digests, signer_calls,
                              applied>>

ReturnAddressFrom(pool) ==
    /\ pc = "config"
    /\ \E address \in pool :
          Configure(return_address(builder, address),
                    [called EXCEPT !.return_address = Some(address)])

MinerFeeFrom(pool) ==
    /\ pc = "config"
    /\ \E satoshi \in pool :
          Configure(miner_fee(builder, satoshi), [called EXCEPT !.miner_fee = Some(satoshi)])

AddInputFrom(pool) ==
    /\ pc = "config"
    /\ Len(builder.inputs) < MaxInputs
    /\ \E input \in pool :
          Configure(add_input(builder, input), [called EXCEPT !.inputs = Append(@, input)])

AddOutputFrom(pool, max) ==
    /\ pc = "config"
    /\ Len(builder.outputs) < max
    /\ \E output \in pool :
          Configure(add_output(builder, output), [called EXCEPT !.outputs = Append(@, output)])

MinerFee == MinerFeeFrom(FeePool)
AddInput == AddInputFrom(InputPool)
AddOutput == AddOutputFrom(OutputPool, MaxOutputs)

Version == VersionFrom(VersionPool)
LockTime == LockTimeFrom(HeightPool)
ReturnAddress == ReturnAddressFrom(AddressPool)
CfgMinerFee == MinerFeeFrom(CfgFeePool)
CfgAddInput == AddInputFrom(CfgInputPool)
CfgAddOutput == AddOutputFrom(CfgOutputPool, CfgMaxOutputs)

(***************************************************************************)
(* Signing (lines 216-385).                                                *)
(***************************************************************************)

\* entry (lines 243-248): the builder is consumed, `tx` starts empty
Enter(entry) ==
    /\ pc = "config"
    /\ pc' = "prepare"
    /\ api' = entry
    /\ tx' = [version |-> builder.version, lock_time |-> builder.lock_time,
              input |-> <<>>, output |-> <<>>]
    /\ UNCHANGED <<builder, overflow_checks, total_satoshi_inputs, total_satoshis_outputs,
                   prevouts, claims, index, result, logs>>

SignInputs == Enter("sign_inputs")

SignInputsFn == Enter("sign_inputs_fn")

\* lines 250-267: the two loops that fill `tx` and add up the values
PrepareTx ==
    /\ pc = "prepare"
    /\ \E oc \in OverflowModes :
          LET ins == SumInputs(builder.inputs, 1, U64(0), oc)
              outs == SumOutputs(builder.outputs, 1, U64(0), oc)
          IN  IF ins.status = "panic"
              THEN /\ Return(Panic(ins.site, ins.at))
                   /\ overflow_checks' = IF ins.overflowed THEN oc ELSE overflow_checks
                   /\ UNCHANGED <<builder, api, locals, logs>>
              ELSE IF outs.status = "panic"
              THEN /\ Return(Panic(outs.site, outs.at))
                   /\ overflow_checks' = oc
                   /\ tx' = [tx EXCEPT !.input = SkeletonInputs(builder.inputs)]
                   /\ total_satoshi_inputs' = ins.total
                   /\ UNCHANGED <<builder, api, total_satoshis_outputs, prevouts, claims,
                                  index, logs>>
              ELSE /\ pc' = "balance"
                   /\ overflow_checks' =
                         IF ins.overflowed \/ outs.overflowed THEN oc ELSE overflow_checks
                   /\ tx' = [tx EXCEPT !.input = SkeletonInputs(builder.inputs),
                                       !.output = SkeletonOutputs(builder.outputs)]
                   /\ total_satoshi_inputs' = ins.total
                   /\ total_satoshis_outputs' = outs.total
                   /\ UNCHANGED <<builder, api, prevouts, claims, index, result, logs>>

\* lines 269-273: the fee must be set and outputs + fee must not exceed inputs
BalanceCheck ==
    /\ pc = "balance"
    /\ IF ~IsSome(builder.miner_fee)
       THEN /\ Return(Err("miner_fee", 0))
            /\ UNCHANGED <<builder, api, overflow_checks, locals, logs>>
       ELSE \E oc \in OverflowModes :
               LET fee == Unwrap(builder.miner_fee)
                   over == AddU64(total_satoshis_outputs, fee).overflow
               IN  /\ overflow_checks' = IF over THEN oc ELSE overflow_checks
                   /\ IF over /\ oc = "on"
                      THEN Return(Panic("fee_add_overflow", 0))
                      ELSE IF BalanceFails(total_satoshis_outputs, fee, total_satoshi_inputs)
                      THEN Return(Err("balance", 0))
                      ELSE pc' = "prevouts" /\ UNCHANGED result
                   /\ UNCHANGED <<builder, api, locals, logs>>

\* lines 275-289: the prevouts of a transaction that spends a taproot output
Prevouts ==
    /\ pc = "prevouts"
    /\ LET pv == IF builder.contains_taproot
                 THEN BuildPrevouts(builder.inputs, 1, <<>>)
                 ELSE [status |-> "ok", at |-> 0, prevouts |-> <<>>]
       IN  /\ prevouts' = pv.prevouts
           /\ IF pv.status = "ok"
              THEN pc' = "digest" /\ index' = 1 /\ UNCHANGED result
              ELSE Return(Err("prevout_value", pv.at)) /\ UNCHANGED index
    /\ UNCHANGED <<builder, api, overflow_checks, tx, total_satoshi_inputs,
                   total_satoshis_outputs, claims, logs>>

\* lines 294-368, one iteration: NonStandard is skipped; any other input gets
\* its digest and one signer call, whose claim is kept with the index
DigestStep ==
    /\ pc = "digest"
    /\ index <= Len(builder.inputs)
    /\ LET input == builder.inputs[index]
           d == Digest(input, index, tx, prevouts)
       IN  IF d.status = "skip"
           THEN /\ index' = index + 1
                /\ UNCHANGED <<pc, result, claims, logs>>
           ELSE /\ digests' = Append(digests, d.hash)
                /\ UNCHANGED <<applied, called>>
                /\ IF d.status = "err"
                   THEN /\ Return(Err(d.site, index))
                        /\ UNCHANGED <<claims, index, signer_calls>>
                   ELSE IF d.status = "panic"
                   THEN /\ Return(Panic(d.site, index))
                        /\ UNCHANGED <<claims, index, signer_calls>>
                   ELSE \E r \in SignerResults(api, input) :
                           /\ signer_calls' = Append(signer_calls,
                                 [index |-> index, input |-> input, message |-> d.hash,
                                  returned |-> r])
                           /\ IF r.status = "ok"
                              THEN /\ claims' = PushClaim(claims, index, r)
                                   /\ index' = index + 1
                                   /\ UNCHANGED <<pc, result>>
                              ELSE IF r.status = "err"
                              THEN /\ Return(Err("signer", index))
                                   /\ UNCHANGED <<claims, index>>
                              ELSE /\ Return(Panic("nonstandard_abort", index))
                                   /\ UNCHANGED <<claims, index>>
    /\ UNCHANGED <<builder, api, overflow_checks, tx, total_satoshi_inputs,
                   total_satoshis_outputs, prevouts>>

\* lines 373-382 from the k-th claim on: each claim is written to its input;
\* `tx.input[index]` panics outside the vector
RECURSIVE AssembleFrom(_, _, _, _)
AssembleFrom(t, cs, k, done) ==
    IF k > Len(cs)
    THEN [status |-> "ok", at |-> 0, tx |-> t, applied |-> done]
    ELSE IF cs[k][1] \notin 1..Len(t.input)
    THEN [status |-> "panic", at |-> cs[k][1], tx |-> t, applied |-> done]
    ELSE AssembleFrom(ApplyClaim(t, cs[k][1], cs[k][2]), cs, k + 1, Append(done, cs[k][1]))

\* lines 370-384: the digest loop is over; the claims are written into the
\* transaction, which is returned
Assemble ==
    /\ pc = "digest"
    /\ index > Len(builder.inputs)
    /\ LET a == AssembleFrom(tx, claims, 1, <<>>)
       IN  /\ tx' = a.tx
           /\ applied' = a.applied
           /\ IF a.status = "ok"
              THEN Return(Ok(a.tx))
              ELSE Return(Panic("index_out_of_bounds", a.at))
    /\ UNCHANGED <<builder, api, overflow_checks, total_satoshi_inputs,
                   total_satoshis_outputs, prevouts, claims, index, digests, signer_calls,
                   called>>

\* signing with any closure and with a TransactionSigner, over inputs of
\* every variant, with and without a value
Next ==
    \/ MinerFee
    \/ AddInput
    \/ AddOutput
    \/ SignInputs
    \/ SignInputsFn
    \/ PrepareTx
    \/ BalanceCheck
    \/ Prevouts
    \/ DigestStep
    \/ Assemble

Spec == Init /\ [][Next]_vars

\* every configuration operation, then signing with a TransactionSigner
NextCfg ==
    \/ Version
    \/ LockTime
    \/ ReturnAddress
    \/ CfgMinerFee
    \/ CfgAddInput
    \/ CfgAddOutput
    \/ SignInputs
    \/ PrepareTx
    \/ BalanceCheck
    \/ Prevouts
    \/ DigestStep
    \/ Assemble

SpecCfg == Init /\ [][NextCfg]_vars

(***************************************************************************)
(* The properties.  They are stated over what the caller did (`called`)    *)
(* and what the caller gets (`result`), with the logs of the signing run.  *)
(***************************************************************************)
Signed == result.tx[1]

InputIndexes == 1..Len(called.inputs)
IsNonStandard(i) == called.inputs[i].kind = "NonStandard"
SignableIndexes == SelectSeq([i \in InputIndexes |-> i], LAMBDA i : ~IsNonStandard(i))
AllValuesPresent == \A i \in InputIndexes : IsSome(called.inputs[i].ctx.value)
TaprootPresent == \E i \in InputIndexes : IsTaproot(called.inputs[i])
SigningOver == pc = "done" /\ api # "none"

InputValues == [i \in InputIndexes |-> Unwrap(called.inputs[i].ctx.value)]
OutputValues == [i \in 1..Len(called.outputs) |-> called.outputs[i].value]

\* the sum of a sequence of u64 as a number (no wrap)
RECURSIVE ExactSum(_)
ExactSum(values) ==
    IF values = <<>> THEN Widen(U64(0))
    ELSE AddWide(Widen(values[1]), ExactSum(Tail(values)))

\* the sum of a sequence of u64 modulo 2^64
RECURSIVE WrappedSum(_)
WrappedSum(values) ==
    IF values = <<>> THEN U64(0)
    ELSE AddU64(values[1], WrappedSum(Tail(values))).value

\* sum(output values) + fee > sum(input values), as numbers
OutputsPlusFeeExceedInputs ==
    GtLimbs(AddWide(ExactSum(OutputValues), Widen(Unwrap(called.miner_fee))),
            ExactSum(InputValues))

\* C1: when signing is over and the fee and every input value were given,
\* the result is the balance error exactly if the outputs plus the fee exceed
\* the inputs.
C1_BalanceInvariant ==
    (SigningOver /\ IsSome(called.miner_fee) /\ AllValuesPresent) =>
        (OutputsPlusFeeExceedInputs <=> (result.kind = "Err" /\ result.site = "balance"))

SignerFailed == \E k \in 1..Len(signer_calls) : signer_calls[k].returned.status # "ok"
WitnessValueMissing ==
    \E i \in InputIndexes :
        /\ called.inputs[i].kind \in {"P2WPKH", "P2TRKeyPath", "P2TRScriptPath"}
        /\ ~IsSome(called.inputs[i].ctx.value)
EverySignableInputClaimed ==
    \A i \in InputIndexes :
        ~IsNonStandard(i) =>
            \E k \in 1..Len(signer_calls) :
                signer_calls[k].index = i /\ signer_calls[k].returned.status = "ok"

\* C2: once signing is over, a failed signer, a missing required value or a
\* failed balance check mean that an error was returned and no transaction;
\* a transaction is returned only if every signable input got its claim.
C2_AllOrNothing ==
    SigningOver =>
        /\ (SignerFailed \/ WitnessValueMissing \/ result.site = "balance") =>
               (result.kind = "Err" /\ result.tx = <<>>)
        /\ result.kind = "Ok" => EverySignableInputClaimed

ScriptEmpty(i) == Signed.input[i].script_sig = <<>>
WitnessEmpty(i) == Signed.input[i].witness = <<>>
ReturnedFor(i) ==
    signer_calls[CHOOSE k \in 1..Len(signer_calls) : signer_calls[k].index = i].returned

\* C3 as stated: in a returned transaction every input that is not
\* NonStandard has exactly one of script signature and witness non-empty,
\* the one its claim location names; a NonStandard input has both empty.
C3_ExactlyOneNonEmpty ==
    result.kind = "Ok" =>
        \A i \in InputIndexes :
            IF IsNonStandard(i)
            THEN ScriptEmpty(i) /\ WitnessEmpty(i)
            ELSE IF ReturnedFor(i).loc = "Script"
                 THEN ~ScriptEmpty(i) /\ WitnessEmpty(i)
                 ELSE ScriptEmpty(i) /\ ~WitnessEmpty(i)

\* C3 as amended: in a returned transaction every input that is not
\* NonStandard carries the data its signer call returned in the field the
\* returned claim location names, and the other field is empty; a
\* NonStandard input has both empty.
C3_Placement ==
    result.kind = "Ok" =>
        \A i \in InputIndexes :
            IF IsNonStandard(i)
            THEN ScriptEmpty(i) /\ WitnessEmpty(i)
            ELSE IF ReturnedFor(i).loc = "Script"
                 THEN Signed.input[i].script_sig = ReturnedFor(i).data /\ WitnessEmpty(i)
                 ELSE ScriptEmpty(i) /\ Signed.input[i].witness = ReturnedFor(i).data

C3_Witness ==
    /\ result.kind = "Ok"
    /\ \E i, j \in InputIndexes :
          /\ ~IsNonStandard(i) /\ ~IsNonStandard(j)
          /\ ReturnedFor(i).loc = "Script" /\ ~ScriptEmpty(i)
          /\ ReturnedFor(j).loc = "Witness" /\ ~WitnessEmpty(j)

TaprootAlgos == {"taproot_key_spend", "taproot_script_spend"}
IsFullPrevouts(pv) ==
    /\ Len(pv) = Len(called.inputs)
    /\ \A i \in InputIndexes :
          /\ IsSome(called.inputs[i].ctx.value)
          /\ pv[i] = [value |-> Unwrap(called.inputs[i].ctx.value),
                      script_pubkey |-> called.inputs[i].ctx.script_pubkey]

\* C4: every taproot digest is computed over a prevout list with one entry
\* per input added, entry i being (value, script) of input i; all taproot
\* digests of a run use the same list.
C4_PrevoutCompleteness ==
    \A k \in 1..Len(digests) :
        digests[k].algo \in TaprootAlgos =>
            /\ IsFullPrevouts(digests[k].prevouts)
            /\ digests[k].prevouts = prevouts

C4_Witness ==
    \E k \in 1..Len(digests) :
        /\ digests[k].algo \in TaprootAlgos
        /\ digests[k].index = 2
        /\ ~IsTaproot(called.inputs[1])
        /\ Len(digests[k].prevouts) = 2

\* C5: when signing is over for a builder with an input whose value is
\* absent, the caller got an error result, and the signer was not invoked
\* for such an input.
C5_MissingValueIsError ==
    (SigningOver /\ ~AllValuesPresent) =>
        /\ result.kind = "Err"
        /\ \A k \in 1..Len(signer_calls) : IsSome(signer_calls[k].input.ctx.value)

\* the places where signing ends because of the input at `result.at`
InputSites ==
    {"satoshis_unwrap", "inputs_add_overflow", "prevout_value", "sighash",
     "script_code_unwrap", "value_unwrap", "signer", "nonstandard_abort"}
ValueSites == {"satoshis_unwrap", "inputs_add_overflow", "prevout_value"}

\* C6: the signer is never invoked for a NonStandard input, no digest is
\* computed for one, the abort branch of sign_inputs is never taken, and a
\* failure at a NonStandard input is one about its value, never its variant.
C6_NonStandardSkipped ==
    /\ \A k \in 1..Len(signer_calls) : signer_calls[k].input.kind # "NonStandard"
    /\ \A k \in 1..Len(digests) : ~IsNonStandard(digests[k].index)
    /\ result.site # "nonstandard_abort"
    /\ (result.site \in InputSites /\ IsNonStandard(result.at)) => result.site \in ValueSites

C6_Witness ==
    /\ result.kind = "Ok"
    /\ api = "sign_inputs"
    /\ Len(called.inputs) = 2
    /\ IsNonStandard(1)
    /\ ~IsNonStandard(2)

\* C7: no configuration operation fails: as long as signing has not been
\* entered, nothing has ended the program.
C7_ConfigNeverFails == api = "none" => (pc = "config" /\ result = NoResult)

\* C8: a returned transaction has one input per add_input call and one
\* output per add_output call, in call order, with the previous output and
\* sequence of the input and the value and script of the output, and the
\* version and lock time last set (2 and 0 when never set).
C8_OrderPreserved ==
    result.kind = "Ok" =>
        /\ Len(Signed.input) = Len(called.inputs)
        /\ \A i \in InputIndexes :
              /\ Signed.input[i].previous_output = called.inputs[i].ctx.previous_output
              /\ Signed.input[i].sequence = called.inputs[i].ctx.sequence
        /\ Len(Signed.output) = Len(called.outputs)
        /\ \A i \in 1..Len(called.outputs) :
              /\ Signed.output[i].value = called.outputs[i].value
              /\ Signed.output[i].script_pubkey = called.outputs[i].script_pubkey
        /\ Signed.version = (IF IsSome(called.version) THEN Unwrap(called.version) ELSE 2)
        /\ Signed.lock_time = (IF IsSome(called.lock_time) THEN Unwrap(called.lock_time) ELSE 0)

C8_Witness ==
    /\ result.kind = "Ok"
    /\ Len(called.inputs) = 2
    /\ called.inputs[1].ctx.previous_output # called.inputs[2].ctx.previous_output
    /\ called.inputs[1].ctx.sequence # called.inputs[2].ctx.sequence
    /\ Len(called.outputs) = 2
    /\ called.outputs[1] # called.outputs[2]
    /\ called.version = Some(1)
    /\ called.lock_time = Some(7)

IsPrefix(s, t) == Len(s) <= Len(t) /\ \A k \in 1..Len(s) : s[k] = t[k]
CallIndexes == [k \in 1..Len(signer_calls) |-> signer_calls[k].index]

\* C9: the signer is invoked in ascending index order, once per input that
\* is not NonStandard and with the input at that index; each returned claim
\* is kept with that index and written once to it; no claim is written
\* before the last digest was computed; in a run that returns a
\* transaction all of them were invoked and written.
C9_SignerOrder ==
    /\ IsPrefix(CallIndexes, SignableIndexes)
    /\ \A k \in 1..Len(signer_calls) :
          signer_calls[k].input = called.inputs[signer_calls[k].index]
    /\ IsPrefix(claims, [k \in 1..Len(signer_calls) |->
                            <<signer_calls[k].index, signer_calls[k].returned>>])
    /\ IsPrefix(applied, SignableIndexes)
    /\ applied # <<>> => Len(digests) = Len(SignableIndexes)
    /\ pc = "digest" =>
          \A i \in 1..Len(tx.input) : tx.input[i].script_sig = <<>> /\ tx.input[i].witness = <<>>
    /\ result.kind = "Ok" =>
          /\ CallIndexes = SignableIndexes
          /\ Len(claims) = Len(signer_calls)
          /\ applied = SignableIndexes

C9_Witness ==
    /\ result.kind = "Ok"
    /\ Len(called.inputs) = 2
    /\ Len(applied) = 2
    /\ signer_calls[1].returned # signer_calls[2].returned

\* C10: when the signer has been invoked, the fee was set, the balance
\* check (on the u64 sums) had passed and, with a taproot input, the whole
\* prevout list was built; a run that ends with the error of the fee, the
\* balance or the prevout check has invoked no signer.
C10_ValidationGatesSigning ==
    /\ signer_calls # <<>> =>
          /\ IsSome(called.miner_fee)
          /\ AllValuesPresent
          /\ ~GtLimbs(AddU64(WrappedSum(OutputValues), Unwrap(called.miner_fee)).value,
                      WrappedSum(InputValues))
          /\ TaprootPresent => IsFullPrevouts(prevouts)
    /\ (SigningOver /\ result.kind = "Err"
            /\ result.site \in {"miner_fee", "balance", "prevout_value"}) =>
          signer_calls = <<>>

C10_Witness ==
    /\ signer_calls # <<>>
    /\ TaprootPresent
    /\ ~IsTaproot(called.inputs[1])
    /\ called.miner_fee = Some(U64(2))

====
